---- MODULE Spec2Model ----
(***************************************************************************)
(* pdftopng-rs: one transcription job per PDF page, dispatched positionally *)
(* over a pool of Ollama endpoints (src/src/main.rs); each job consumes the  *)
(* records that OllamaClient::generate_stream (src/src/ollama.rs) decodes    *)
(* from a newline-delimited JSON byte stream, under a token budget.          *)
(*                                                                           *)
(* Text is a sequence of characters, a character a one-element name:         *)
(*   "NL" newline, "SP" space, "E" a two-byte character (bytes "C3" "A9"),   *)
(*   "FFFD" the replacement character, every other name an ASCII character.  *)
(* An Option is a sequence of length at most one: <<>> is None, <<v>> Some.  *)
(***************************************************************************)
EXTENDS Integers, Sequences, FiniteSets, TLC

VARIABLES
    args,            \* the parsed command line (Args)
    page_counts,     \* page_counts[d]: pages of the d-th input file (pdfium)
    vocab,           \* the content deltas the backends can send
    ollamas,         \* Vec<OllamaClient>: [url, count] per address token
    ollama_list,     \* the flattened pool: indices into ollamas
    mainpc,          \* position of main
    doc,             \* index of the current input file
    page_no,         \* page loop counter (1-based)
    handles,         \* JoinHandles of the current document, in launch order
    pages_to_remove, \* image paths of the current document
    join_idx,        \* position of the join loop in handles
    progress,        \* calls of inc_progress_bar for the current document
    jobs,            \* spawned tasks, keyed by <<doc, page>>
    fs,              \* files of the output directory: path -> content
    rendered,        \* pages rendered so far, <<doc, page>>
    wire,            \* decoder: bytes of the response body not yet delivered
    buf,             \* decoder: the String buffer
    emitted,         \* decoder: records yielded so far
    dpc,             \* decoder: position of the stream generator
    lines,           \* decoder: the lines the backend wrote (history)
    received         \* decoder: the text pushed to buf so far (history)

vars == <<args, page_counts, vocab, ollamas, ollama_list, mainpc, doc, page_no,
          handles, pages_to_remove, join_idx, progress, jobs, fs, rendered,
          wire, buf, emitted, dpc, lines, received>>

mainVars == <<args, page_counts, vocab, ollamas, ollama_list, mainpc, doc,
              page_no, handles, pages_to_remove, join_idx, progress, jobs, fs,
              rendered>>

decoderVars == <<wire, buf, emitted, dpc, lines, received>>

----------------------------------------------------------------------------
(* Bounds of the model. *)

MaxEndpoints == 2    \* address tokens on the command line (pool specification)
MaxPoolPages == 4    \* pages of the document (pool specification)
MaxPages == 2        \* pages of all input files together
MaxRecords == 3      \* records one job's stream delivers
MaxLines == 2        \* lines of one response body
MaxChunk == 3        \* bytes of one chunk of the body

----------------------------------------------------------------------------
(* Sequences and options. *)

None == <<>>

Some(v) == <<v>>

UnwrapOr(o, d) == IF o = None THEN d ELSE o[1]

RECURSIVE SeqsUpTo(_, _)
SeqsUpTo(S, n) ==
    IF n = 0 THEN {<<>>}
    ELSE LET shorter == SeqsUpTo(S, n - 1)
         IN  shorter \cup {Append(s, x) : s \in {t \in shorter : Len(t) = n - 1}, x \in S}

RECURSIVE Concat(_)
Concat(ss) == IF ss = <<>> THEN <<>> ELSE Head(ss) \o Concat(Tail(ss))

Range(s) == {s[i] : i \in 1..Len(s)}

RECURSIVE SumSeq(_)
SumSeq(s) == IF s = <<>> THEN 0 ELSE Head(s) + SumSeq(Tail(s))

----------------------------------------------------------------------------
(* Endpoint parsing: main.rs 28-37. *)

Digits == {"0", "1", "2"}

DigitVal(c) == CASE c = "0" -> 0 [] c = "1" -> 1 [] c = "2" -> 2

RECURSIVE DecimalValue(_)
DecimalValue(ds) ==
    IF ds = <<>> THEN 0
    ELSE 10 * DecimalValue(SubSeq(ds, 1, Len(ds) - 1)) + DigitVal(ds[Len(ds)])

\* str::parse::<usize>: an optional '+', then one or more digits; None otherwise.
ParseUsize(s) ==
    LET ds == IF s # <<>> /\ Head(s) = "+" THEN Tail(s) ELSE s
    IN  IF ds = <<>> \/ \E i \in 1..Len(ds) : ds[i] \notin Digits
        THEN None
        ELSE Some(DecimalValue(ds))

\* str::split_once('@'): the parts around the first '@', None without one.
SplitOnceAt(s) ==
    IF \E i \in 1..Len(s) : s[i] = "@"
    THEN LET i == CHOOSE k \in 1..Len(s) :
                      s[k] = "@" /\ \A m \in 1..(k - 1) : s[m] # "@"
         IN  Some(<<SubSeq(s, 1, i - 1), SubSeq(s, i + 1, Len(s))>>)
    ELSE None

\* The closure of main.rs 31-36 and OllamaClient::new.
ParseEndpoint(token) ==
    LET parts == UnwrapOr(SplitOnceAt(token), <<token, <<"1">> >>)
        count == UnwrapOr(ParseUsize(parts[2]), 1)
    IN  [base_url |-> parts[1], count |-> count]

----------------------------------------------------------------------------
(* The pool: main.rs 104-112, and the selection of main.rs 225. *)

RECURSIVE Repeat(_, _)
Repeat(x, n) == IF n = 0 THEN <<>> ELSE <<x>> \o Repeat(x, n - 1)

\* The two nested loops: ollama i is pushed count times, in order.
RECURSIVE BuildPool(_, _)
BuildPool(clients, i) ==
    IF i > Len(clients) THEN <<>>
    ELSE Repeat(i, clients[i].count) \o BuildPool(clients, i + 1)

\* A slip: the 1-based page number as the index.
SelectEndpointByPageNo(list, p) == list[(p % Len(list)) + 1]

\* ollama_list[(page_no - 1) % ollama_list.len()], 0-based in the code.
SelectEndpoint(list, p) == list[((p - 1) % Len(list)) + 1]

----------------------------------------------------------------------------
(* Text and bytes: ollama.rs 224. *)

\* The UTF-8 encoding of a text: "E" takes two bytes, ASCII one each.
RECURSIVE Utf8Encode(_)
Utf8Encode(text) ==
    IF text = <<>> THEN <<>>
    ELSE (IF Head(text) = "E" THEN <<"C3", "A9">> ELSE <<Head(text)>>)
         \o Utf8Encode(Tail(text))

\* String::from_utf8_lossy on one chunk: a lead byte followed by its
\* continuation byte is the character; a lead byte without one, or a
\* continuation byte on its own, becomes U+FFFD.
RECURSIVE FromUtf8Lossy(_)
FromUtf8Lossy(bytes) ==
    IF bytes = <<>> THEN <<>>
    ELSE IF Head(bytes) = "C3" /\ Len(bytes) >= 2 /\ bytes[2] = "A9"
         THEN <<"E">> \o FromUtf8Lossy(Tail(Tail(bytes)))
    ELSE IF Head(bytes) \in {"C3", "A9"}
         THEN <<"FFFD">> \o FromUtf8Lossy(Tail(bytes))
    ELSE <<Head(bytes)>> \o FromUtf8Lossy(Tail(bytes))

Whitespace == {"SP", "NL"}

\* str::trim
RECURSIVE TrimStart(_)
TrimStart(s) ==
    IF s # <<>> /\ Head(s) \in Whitespace THEN TrimStart(Tail(s)) ELSE s

RECURSIVE TrimEnd(_)
TrimEnd(s) ==
    IF s # <<>> /\ s[Len(s)] \in Whitespace
    THEN TrimEnd(SubSeq(s, 1, Len(s) - 1)) ELSE s

Trim(s) == TrimEnd(TrimStart(s))

----------------------------------------------------------------------------
(* JSON lines: the OllamaResponse of ollama.rs 78-102, reduced to the      *)
(* fields the program reads, message.content and done.  A record is        *)
(* written "{" content "}" or "{" content "!" "}" (done); inside the       *)
(* content a newline is the two characters "BS" "n", as JSON escapes it.   *)

RECURSIVE Escape(_)
Escape(text) ==
    IF text = <<>> THEN <<>>
    ELSE (IF Head(text) = "NL" THEN <<"BS", "n">> ELSE <<Head(text)>>)
         \o Escape(Tail(text))

\* serde_json::to_string as the backend does it, one record per line.
ToJson(r) ==
    <<"{">> \o Escape(r.content) \o (IF r.done THEN <<"!">> ELSE <<>>) \o <<"}">>

\* The characters of a JSON string body, unescaped; None on a bad escape, a
\* raw control character or a structural character.
RECURSIVE Unescape(_)
Unescape(s) ==
    IF s = <<>> THEN Some(<<>>)
    ELSE IF Head(s) = "BS"
         THEN IF Len(s) >= 2 /\ s[2] = "n"
              THEN LET rest == Unescape(Tail(Tail(s)))
                   IN  IF rest = None THEN None ELSE Some(<<"NL">> \o rest[1])
              ELSE None
    ELSE IF Head(s) \in {"{", "}", "!", "NL"} THEN None
    ELSE LET rest == Unescape(Tail(s))
         IN  IF rest = None THEN None ELSE Some(<<Head(s)>> \o rest[1])

\* serde_json::from_str::<OllamaResponse>: ollama.rs 233 and 258.
FromJson(s) ==
    IF Len(s) < 2 \/ s[1] # "{" \/ s[Len(s)] # "}" THEN None
    ELSE LET inner == SubSeq(s, 2, Len(s) - 1)
             done == inner # <<>> /\ inner[Len(inner)] = "!"
             body == IF done THEN SubSeq(inner, 1, Len(inner) - 1) ELSE inner
             content == Unescape(body)
         IN  IF content = None THEN None
             ELSE Some([content |-> content[1], done |-> done])

----------------------------------------------------------------------------
(* The decoder loop of generate_stream: ollama.rs 220-263. *)

\* buf[start..].find('\n'), as an index of b (0 when there is none).
FindNl(b, start) ==
    IF \E i \in start..Len(b) : b[i] = "NL"
    THEN CHOOSE i \in start..Len(b) :
             b[i] = "NL" /\ \A k \in start..(i - 1) : b[k] # "NL"
    ELSE 0

\* One line of the inner loop, ollama.rs 231-244: what it yields.
ParseLine(line) ==
    IF line = <<>> THEN <<>>
    ELSE LET msg == FromJson(line)
         IN  IF msg = None THEN <<>> ELSE <<msg[1]>>

\* The inner while loop, ollama.rs 228-247: the records yielded and the
\* final value of start (1-based).
RECURSIVE ScanLines(_, _, _)
ScanLines(b, start, out) ==
    LET nl == FindNl(b, start)
    IN  IF nl = 0 THEN [start |-> start, out |-> out]
        ELSE ScanLines(b, nl + 1, out \o ParseLine(Trim(SubSeq(b, start, nl - 1))))

\* A decoder that clears the buffer once it has scanned a line.
DrainAll(b, start) == IF start > 1 THEN <<>> ELSE b

\* buf.drain(..start) when start > 0, ollama.rs 250-252.
Drain(b, start) == IF start > 1 THEN SubSeq(b, start, Len(b)) ELSE b

\* The body of the outer loop for one chunk, ollama.rs 224-252.
ProcessChunk(b, chunk) ==
    LET pushed == b \o FromUtf8Lossy(chunk)
        scan == ScanLines(pushed, 1, <<>>)
    IN  [buf |-> Drain(pushed, scan.start), out |-> scan.out]

\* A decoder without the final parse attempt.
FlushTailSkipped(b) == <<>>

\* The final parse attempt, ollama.rs 256-263.
FlushTail(b) == ParseLine(Trim(b))

----------------------------------------------------------------------------
(* Files of the output directory: main.rs 187-192, 205, 230-232, 262, 279. *)

\* A file name is a sequence of pieces <<text, number, extension>>: Lit(t) is
\* the text t, DotPdf the text ".pdf".
Lit(t) == <<t, 0, "">>

DotPdf == Lit(".pdf")

\* str::replace(".pdf", suffix): every ".pdf" piece is replaced, a name
\* without one is returned unchanged.
ReplacePdf(name, suffix) ==
    [i \in 1..Len(name) |-> IF name[i] = DotPdf THEN suffix ELSE name[i]]

\* format!("-page-{:06}.png", page_no) and format!("-page-{:06}.md", page_no)
PageSuffix(p, ext) == <<"-page-", p, ext>>

ImagePath(name, p) == ReplacePdf(name, PageSuffix(p, ".png"))

ContentPath(name, p) == ReplacePdf(name, PageSuffix(p, ".md"))

PngBytes == <<"PNG">>

\* std::fs::write: creates or replaces the file.
FsWrite(files, path, content) ==
    [q \in DOMAIN files \cup {path} |-> IF q = path THEN content ELSE files[q]]

\* The loop of main.rs 278-280: remove_file(page).unwrap() for each path in
\* turn; a path that is no longer there panics, with the earlier ones removed.
RECURSIVE RemoveAll(_, _)
RemoveAll(files, paths) ==
    IF paths = <<>> THEN [fs |-> files, ok |-> TRUE]
    ELSE IF Head(paths) \notin DOMAIN files THEN [fs |-> files, ok |-> FALSE]
    ELSE RemoveAll([q \in DOMAIN files \ {Head(paths)} |-> files[q]], Tail(paths))

----------------------------------------------------------------------------
(* The spawned task of main.rs 234-263. *)

Utf8Len(c) == IF c = "E" THEN 2 ELSE IF c = "FFFD" THEN 3 ELSE 1

\* String::len: the length in bytes.
RECURSIVE StrLen(_)
StrLen(text) == IF text = <<>> THEN 0 ELSE Utf8Len(Head(text)) + StrLen(Tail(text))

Records == [content : vocab, done : BOOLEAN]

\* The task as tokio::spawn receives it: main.rs 235-237.  delivered and
\* stream record what the response stream has given the task so far: the
\* records, and whether it is still open, has ended (None), has failed (Err)
\* or hangs (the backend sends nothing more and never closes).
NewJob(endpoint, path) ==
    [state |-> "running", exit |-> "none", token_count |-> 0,
     accumulated_response |-> <<>>, start |-> None, ollama |-> endpoint,
     content_path |-> path, delivered |-> <<>>, stream |-> "open",
     buf |-> <<>>]

\* The process is gone once main has returned or panicked: the runtime is
\* dropped and every task still suspended at an await is cancelled.
ProcessAlive == mainpc \notin {"done", "failed", "panicked"}

Running(k) == k \in DOMAIN jobs /\ jobs[k].state = "running" /\ ProcessAlive

\* A task whose loop goes on polling after it has broken out or ended.
PollingAfterExit(k) ==
    k \in DOMAIN jobs /\ jobs[k].state # "panicked" /\ ProcessAlive /\ jobs[k].stream = "open"

\* try_next().await can resume only while the backend still sends or closes.
Polling(k) == Running(k) /\ jobs[k].stream = "open"

\* A slip: `=` for `+=`.
AccumulateReplacing(acc, content) == content

\* accumulated_response += &response.message.content, main.rs 247.
Accumulate(acc, content) == acc \o content

\* A slip: `>=` for `>`.
BudgetExceededInclusive(count, budget) == count >= budget

\* A comparison that reads a budget of 0 as "no limit".
BudgetExceededUnlessZero(count, budget) == budget # 0 /\ count > budget

\* token_count > args.max_tokens, main.rs 249.
BudgetExceeded(count, budget) == count > budget

IsPrefix(p, t) == Len(p) <= Len(t) /\ SubSeq(t, 1, Len(p)) = p

\* A buffer kept in the client, shared by the streams of one endpoint.
StoreBufInClient(js, k, b) ==
    [o \in DOMAIN js |->
        IF js[o].ollama = js[k].ollama THEN [js[o] EXCEPT !.buf = b] ELSE js[o]]

\* buf is a local of the generator of one generate_stream call, ollama.rs 220:
\* the decoder of job k writes the buffer of job k.
StoreBuf(js, k, b) == [js EXCEPT ![k] = [@ EXCEPT !.buf = b]]

\* The chunk that completes the line of record r for a decoder holding b.
CompletingChunk(b, r) ==
    Utf8Encode(SubSeq(ToJson(r), Len(b) + 1, Len(ToJson(r)))) \o <<"NL">>

\* One iteration of the while loop, main.rs 238-253: try_next yields Ok(Some(r)).
\* The decoder of the job's stream has received the rest of the line of r and
\* its newline, has yielded r and drained its buffer through that newline
\* (ollama.rs 229-252).
\* On the break the task goes on to main.rs 254-262 without suspending.
JobRecord(k, r) ==
    /\ Polling(k)
    /\ Len(jobs[k].delivered) < MaxRecords
    /\ IsPrefix(jobs[k].buf, ToJson(r))
    /\ LET j == jobs[k]
           acc == Accumulate(j.accumulated_response, r.content)
           count == j.token_count + StrLen(r.content)
           stop == BudgetExceeded(count, args.max_tokens)
       IN  /\ jobs' = StoreBuf([jobs EXCEPT ![k] =
                  [j EXCEPT !.accumulated_response = acc,
                            !.token_count = count,
                            !.start = Some(TRUE),
                            !.delivered = Append(j.delivered, r),
                            !.state = IF stop THEN "returned" ELSE "running",
                            !.exit = IF stop THEN "budget" ELSE "none"]],
                  k, <<>>)
           /\ fs' = IF stop THEN FsWrite(fs, j.content_path, acc) ELSE fs
    /\ UNCHANGED <<args, page_counts, vocab, ollamas, ollama_list, mainpc, doc,
                   page_no, handles, pages_to_remove, join_idx, progress,
                   rendered, decoderVars>>

\* The start of a line a chunk can end with, and the chunks that bring it.
LineStarts == { <<"{">>, <<"{", "a">> }

PartialChunks == { <<"{">>, <<"{", "a">>, <<"a">> }

\* A chunk without a newline: the decoder of the job's stream appends it to
\* its buffer, yields nothing and polls the body again (ollama.rs 222-253);
\* the task stays in try_next().await, main.rs 238.
JobChunk(k, c) ==
    /\ Polling(k)
    /\ LET step == ProcessChunk(jobs[k].buf, Utf8Encode(c))
       IN  /\ step.out = <<>>
           /\ step.buf \in LineStarts
           /\ jobs' = StoreBuf(jobs, k, step.buf)
    /\ UNCHANGED <<args, page_counts, vocab, ollamas, ollama_list, mainpc, doc,
                   page_no, handles, pages_to_remove, join_idx, progress, fs,
                   rendered, decoderVars>>

\* try_next yields Ok(None): the body has ended and what is left in the
\* decoder's buffer parses to nothing (ollama.rs 256-263); the loop ends,
\* main.rs 254-262.  start.unwrap() panics when no record was consumed.
JobStreamEnd(k) ==
    /\ Polling(k)
    /\ FlushTail(jobs[k].buf) = <<>>
    /\ LET j == jobs[k]
       IN  IF j.start = None
           THEN /\ jobs' = [jobs EXCEPT ![k] =
                       [j EXCEPT !.state = "panicked", !.stream = "ended"]]
                /\ fs' = fs
           ELSE /\ jobs' = [jobs EXCEPT ![k] =
                       [j EXCEPT !.state = "returned", !.exit = "end",
                                 !.stream = "ended"]]
                /\ fs' = FsWrite(fs, j.content_path, j.accumulated_response)
    /\ UNCHANGED <<args, page_counts, vocab, ollamas, ollama_list, mainpc, doc,
                   page_no, handles, pages_to_remove, join_idx, progress,
                   rendered, decoderVars>>

\* try_next yields Err (ollama.rs 213, 214, 222): the unwrap of main.rs 238
\* panics the task.
JobStreamError(k) ==
    /\ Polling(k)
    /\ jobs' = [jobs EXCEPT ![k] = [@ EXCEPT !.state = "panicked", !.stream = "error"]]
    /\ UNCHANGED <<args, page_counts, vocab, ollamas, ollama_list, mainpc, doc,
                   page_no, handles, pages_to_remove, join_idx, progress, fs,
                   rendered, decoderVars>>

\* The backend stalls for good: the task stays suspended in try_next().await,
\* main.rs 238; there is no timeout anywhere in the task or in main.
JobStreamHang(k) ==
    /\ Polling(k)
    /\ jobs' = [jobs EXCEPT ![k] = [@ EXCEPT !.stream = "hung"]]
    /\ UNCHANGED <<args, page_counts, vocab, ollamas, ollama_list, mainpc, doc,
                   page_no, handles, pages_to_remove, join_idx, progress, fs,
                   rendered, decoderVars>>

\* The outcome of a task in the words of the data model.
Status(j) ==
    CASE j.state = "running" -> "Streaming"
      [] j.state = "panicked" -> "Failed"
      [] j.state = "returned" /\ j.exit = "budget" -> "CompletedBudgetExceeded"
      [] j.state = "returned" /\ j.exit = "end" -> "CompletedWithinBudget"

----------------------------------------------------------------------------
(* main: main.rs 21-285, in transcription mode (enum_models off). *)

\* main.rs 22-37: the address tokens become OllamaClients.
ParseArgs ==
    /\ mainpc = "start"
    /\ ollamas' = [i \in 1..Len(args.ollama_url) |-> ParseEndpoint(args.ollama_url[i])]
    /\ mainpc' = "pool"
    /\ UNCHANGED <<args, page_counts, vocab, ollama_list, doc, page_no, handles,
                   pages_to_remove, join_idx, progress, jobs, fs, rendered,
                   decoderVars>>

\* main.rs 104-116: the pool is flattened; the loop over the files begins.
MakePool ==
    /\ mainpc = "pool"
    /\ ollama_list' = BuildPool(ollamas, 1)
    /\ doc' = 1
    /\ mainpc' = "load"
    /\ UNCHANGED <<args, page_counts, vocab, ollamas, page_no, handles,
                   pages_to_remove, join_idx, progress, jobs, fs, rendered,
                   decoderVars>>

\* A page loop that ignores --page-start.
PageStartIgnored == UnwrapOr(None, 1)

PageStart == UnwrapOr(args.page_start, 1)

PageEnd == UnwrapOr(args.page_end, page_counts[doc])

\* A slip: the upper check left out.
RangeErrorNoUpper(page_start, page_end, page_count) ==
    IF page_start = 0 THEN Some("Page start cannot be 0")
    ELSE IF page_end < page_start THEN Some("Page end cannot be less than page start")
    ELSE None

\* The three checks of main.rs 126-139: the error returned, None when accepted.
RangeError(page_start, page_end, page_count) ==
    IF page_start = 0 THEN Some("Page start cannot be 0")
    ELSE IF page_end < page_start THEN Some("Page end cannot be less than page start")
    ELSE IF page_end > page_count THEN Some("Page end cannot be greater than page count")
    ELSE None

\* main.rs 117-150: the next file is loaded and its range checked.
LoadDocument ==
    /\ mainpc = "load"
    /\ doc <= Len(args.files)
    /\ IF RangeError(PageStart, PageEnd, page_counts[doc]) # None
       THEN /\ mainpc' = "failed"
            /\ UNCHANGED <<page_no, handles, pages_to_remove, progress>>
       ELSE /\ mainpc' = "pages"
            /\ page_no' = 1
            /\ handles' = <<>>
            /\ pages_to_remove' = <<>>
            /\ progress' = 0
    /\ UNCHANGED <<args, page_counts, vocab, ollamas, ollama_list, doc, join_idx,
                   jobs, fs, rendered, decoderVars>>

\* One iteration of the page loop, main.rs 151-267.
PageIter ==
    /\ mainpc = "pages"
    /\ \/ \* the iterator is exhausted, or the break of main.rs 156-158
          /\ page_no > page_counts[doc] \/ page_no > PageEnd
          /\ mainpc' = "join"
          /\ join_idx' = 1
          /\ UNCHANGED <<page_no, handles, pages_to_remove, jobs, fs, rendered>>
       \/ \* the continue of main.rs 153-155
          /\ page_no <= page_counts[doc]
          /\ page_no < PageStart
          /\ page_no' = page_no + 1
          /\ UNCHANGED <<mainpc, join_idx, handles, pages_to_remove, jobs, fs, rendered>>
       \/ \* the page is rendered and written, its job spawned
          /\ page_no <= page_counts[doc]
          /\ page_no >= PageStart
          /\ page_no <= PageEnd
          /\ LET name == args.files[doc]
                 image_path == ImagePath(name, page_no)
             IN  /\ rendered' = rendered \cup {<<doc, page_no>>}
                 /\ fs' = FsWrite(fs, image_path, PngBytes)
                 /\ IF Len(ollama_list) = 0
                    THEN \* remainder with a divisor of zero, main.rs 225
                         /\ mainpc' = "panicked"
                         /\ UNCHANGED <<page_no, handles, pages_to_remove, jobs>>
                    ELSE /\ jobs' = jobs @@ (<<doc, page_no>> :>
                                 NewJob(SelectEndpoint(ollama_list, page_no),
                                        ContentPath(name, page_no)))
                         /\ handles' = Append(handles, <<doc, page_no>>)
                         /\ pages_to_remove' = Append(pages_to_remove, image_path)
                         /\ page_no' = page_no + 1
                         /\ mainpc' = mainpc
          /\ UNCHANGED join_idx
    /\ UNCHANGED <<args, page_counts, vocab, ollamas, ollama_list, doc, progress,
                   decoderVars>>

\* main.rs 269-270: the progress bar advances, then the handle is awaited.
JoinInc ==
    /\ mainpc = "join"
    /\ join_idx <= Len(handles)
    /\ progress' = progress + 1
    /\ mainpc' = "await"
    /\ UNCHANGED <<args, page_counts, vocab, ollamas, ollama_list, doc, page_no,
                   handles, pages_to_remove, join_idx, jobs, fs, rendered,
                   decoderVars>>

\* A join loop that drops the handle instead of awaiting it.
JoinAwaitNoWait ==
    /\ mainpc = "await"
    /\ mainpc' = "join"
    /\ join_idx' = join_idx + 1
    /\ UNCHANGED <<args, page_counts, vocab, ollamas, ollama_list, doc, page_no,
                   handles, pages_to_remove, progress, jobs, fs, rendered,
                   decoderVars>>

\* main.rs 271: handle.await.unwrap() resumes when the task has ended, and
\* panics when the task panicked.
JoinAwait ==
    /\ mainpc = "await"
    /\ jobs[handles[join_idx]].state # "running"
    /\ IF jobs[handles[join_idx]].state = "panicked"
       THEN mainpc' = "panicked" /\ UNCHANGED join_idx
       ELSE mainpc' = "join" /\ join_idx' = join_idx + 1
    /\ UNCHANGED <<args, page_counts, vocab, ollamas, ollama_list, doc, page_no,
                   handles, pages_to_remove, progress, jobs, fs, rendered,
                   decoderVars>>

\* main.rs 273-282: the document is done; the images go unless --keep.
FinishDocument ==
    /\ mainpc = "join"
    /\ join_idx > Len(handles)
    /\ LET removed == IF args.keep THEN [fs |-> fs, ok |-> TRUE]
                      ELSE RemoveAll(fs, pages_to_remove)
       IN  /\ fs' = removed.fs
           /\ IF removed.ok
              THEN mainpc' = "load" /\ doc' = doc + 1
              ELSE mainpc' = "panicked" /\ doc' = doc
    /\ UNCHANGED <<args, page_counts, vocab, ollamas, ollama_list, page_no,
                   handles, pages_to_remove, join_idx, progress, jobs, rendered,
                   decoderVars>>

\* main.rs 284: Ok(()) after the last file.
MainReturn ==
    /\ mainpc = "load"
    /\ doc > Len(args.files)
    /\ mainpc' = "done"
    /\ UNCHANGED <<args, page_counts, vocab, ollamas, ollama_list, doc, page_no,
                   handles, pages_to_remove, join_idx, progress, jobs, fs,
                   rendered, decoderVars>>

----------------------------------------------------------------------------
(* The stream generator of generate_stream on one response body. *)

\* ollama.rs 222-253: the next chunk, the first n bytes still on the wire.
DecoderChunk(n) ==
    /\ dpc = "streaming"
    /\ n \in 1..Len(wire)
    /\ n <= MaxChunk \/ n = Len(wire)
    /\ LET step == ProcessChunk(buf, SubSeq(wire, 1, n))
       IN  /\ buf' = step.buf
           /\ emitted' = emitted \o step.out
    /\ received' = received \o FromUtf8Lossy(SubSeq(wire, 1, n))
    /\ wire' = SubSeq(wire, n + 1, Len(wire))
    /\ UNCHANGED <<dpc, lines, mainVars>>

\* ollama.rs 255-263: the body has ended.
DecoderEnd ==
    /\ dpc = "streaming"
    /\ wire = <<>>
    /\ emitted' = emitted \o FlushTail(buf)
    /\ dpc' = "done"
    /\ UNCHANGED <<wire, buf, lines, received, mainVars>>

\* ollama.rs 213, 214, 222: the `?` ends the stream with an Err item.
DecoderIoError ==
    /\ dpc = "streaming"
    /\ dpc' = "failed"
    /\ UNCHANGED <<wire, buf, emitted, lines, received, mainVars>>

----------------------------------------------------------------------------
(* Initial states. *)

Options(S) == {None} \cup {Some(v) : v \in S}

\* clap's defaults, args.rs 19-65, on one input file.
DefaultArgs ==
    [ollama_url |-> << <<"h">> >>, page_start |-> None, page_end |-> None,
     max_tokens |-> 1024, keep |-> FALSE, files |-> << <<Lit("doc"), DotPdf>> >>]

DecoderIdle ==
    /\ wire = <<>>
    /\ buf = <<>>
    /\ emitted = <<>>
    /\ dpc = "idle"
    /\ lines = [full |-> <<>>, tail |-> <<>>]
    /\ received = <<>>

\* main has parsed its command line; nothing else has happened.
MainInit(a, counts, deltas) ==
    /\ args = a
    /\ page_counts = counts
    /\ vocab = deltas
    /\ ollamas = <<>>
    /\ ollama_list = <<>>
    /\ mainpc = "start"
    /\ doc = 0
    /\ page_no = 0
    /\ handles = <<>>
    /\ pages_to_remove = <<>>
    /\ join_idx = 0
    /\ progress = 0
    /\ jobs = <<>>
    /\ fs = <<>>
    /\ rendered = {}

\* Command lines of the dispatcher specification.
UrlLists ==
    { << <<"h">> >>, << <<"h", "@", "2">>, <<"g">> >>, << <<"h", "@", "0">> >> }

FileLists ==
    { << <<Lit("doc"), DotPdf>> >>,
      << <<Lit("scan")>> >>,
      << <<Lit("doc"), DotPdf>>, <<Lit("scan")>> >> }

Init ==
    /\ \E a \in [ollama_url : UrlLists,
                 page_start : Options(0..MaxPages),
                 page_end : Options(0..(MaxPages + 1)),
                 max_tokens : {1},
                 keep : BOOLEAN,
                 files : FileLists] :
          \E counts \in [1..Len(a.files) -> 0..MaxPages] :
              /\ SumSeq(counts) <= MaxPages
              /\ MainInit(a, counts, {<<"a">>})
    /\ DecoderIdle

Next ==
    \/ ParseArgs
    \/ MakePool
    \/ LoadDocument
    \/ PageIter
    \/ JoinInc
    \/ JoinAwait
    \/ FinishDocument
    \/ MainReturn
    \/ \E k \in DOMAIN jobs : \E r \in Records : JobRecord(k, r)
    \/ \E k \in DOMAIN jobs : JobStreamEnd(k)
    \/ \E k \in DOMAIN jobs : JobStreamError(k)
    \/ \E k \in DOMAIN jobs : JobStreamHang(k)

Spec == Init /\ [][Next]_vars

----------------------------------------------------------------------------
(* One job on its own: a one-page document, richer deltas and budgets. *)

JobVocab == {<<>>, <<"a">>, <<"E">>, <<"b", "b", "b", "b", "b">>}

JobBudgets == {0, 2, 8}

InitJob ==
    /\ \E budget \in JobBudgets, k \in BOOLEAN :
          MainInit([DefaultArgs EXCEPT !.max_tokens = budget, !.keep = k],
                   <<1>>, JobVocab)
    /\ DecoderIdle

SpecJob == InitJob /\ [][Next]_vars

----------------------------------------------------------------------------
(* Fair scheduling: the tokio runtime of #[tokio::main] polls main and     *)
(* every spawned task that can make progress, and a backend that neither   *)
(* hangs nor fails goes on sending until it closes its stream.             *)

JobKeys == (1..2) \X (1..MaxPages)

MainStep ==
    \/ ParseArgs
    \/ MakePool
    \/ LoadDocument
    \/ PageIter
    \/ JoinInc
    \/ JoinAwait
    \/ FinishDocument
    \/ MainReturn

JobStep(k) ==
    \/ \E r \in Records : JobRecord(k, r)
    \/ JobStreamEnd(k)
    \/ JobStreamError(k)

Fairness ==
    /\ WF_vars(MainStep)
    /\ \A k \in JobKeys : WF_vars(JobStep(k))

InitFair ==
    /\ \E k \in BOOLEAN :
          MainInit([DefaultArgs EXCEPT !.max_tokens = 1, !.keep = k], <<MaxPages>>, {<<"a">>})
    /\ DecoderIdle

SpecFair == InitFair /\ [][Next]_vars /\ Fairness

----------------------------------------------------------------------------
(* Concurrent streams: the jobs of one document, on one endpoint or on two, *)
(* with the decoder buffer of each stream and chunks that end inside a     *)
(* line.                                                                    *)

StreamUrlLists == { << <<"h">> >>, << <<"h">>, <<"g">> >> }

InitStreams ==
    /\ \E urls \in StreamUrlLists :
          MainInit([DefaultArgs EXCEPT !.max_tokens = 1, !.ollama_url = urls],
                   <<MaxPages>>, {<<"a">>})
    /\ DecoderIdle

NextStreams ==
    \/ ParseArgs
    \/ MakePool
    \/ LoadDocument
    \/ PageIter
    \/ JoinInc
    \/ JoinAwait
    \/ FinishDocument
    \/ MainReturn
    \/ \E k \in DOMAIN jobs, r \in Records : JobRecord(k, r)
    \/ \E k \in DOMAIN jobs, c \in PartialChunks : JobChunk(k, c)
    \/ \E k \in DOMAIN jobs : JobStreamEnd(k)
    \/ \E k \in DOMAIN jobs : JobStreamError(k)
    \/ \E k \in DOMAIN jobs : JobStreamHang(k)

SpecStreams == InitStreams /\ [][NextStreams]_vars

----------------------------------------------------------------------------
(* The pool on its own: main up to the end of the page loop, the spawned   *)
(* tasks not yet polled.                                                    *)

PoolTokens ==
    { <<"h">>, <<"h", "@", "2">>, <<"g", "@", "1">>, <<"g", "@", "0">>,
      <<"h", "@">>, <<"g", "@", "x">>, <<"h", "@", "+", "2">>,
      <<"g", "@", "2", "@", "1">> }

InitPool ==
    /\ \E urls \in SeqsUpTo(PoolTokens, MaxEndpoints) \ {<<>>} :
          \E n \in 1..MaxPoolPages :
              MainInit([DefaultArgs EXCEPT !.ollama_url = urls], <<n>>, {<<"a">>})
    /\ DecoderIdle

NextPool ==
    \/ ParseArgs
    \/ MakePool
    \/ LoadDocument
    \/ PageIter

SpecPool == InitPool /\ [][NextPool]_vars

----------------------------------------------------------------------------
(* The decoder on its own: every body of at most MaxLines lines and a      *)
(* tail, cut into chunks at every byte offset.                              *)

SourceRecords == [content : SeqsUpTo({"a", "E", "NL"}, 1), done : BOOLEAN]

\* A line as the backend wrote it: its text, and the record it serializes
\* (None for text that is no record).
SerializedLines == {[text |-> ToJson(r), rec |-> Some(r)] : r \in SourceRecords}

PaddedLines ==
    {[text |-> <<"SP">> \o ToJson(r) \o <<"SP">>, rec |-> Some(r)] :
        r \in {[content |-> <<"a">>, done |-> FALSE]}}

MalformedLines ==
    {[text |-> t, rec |-> None] :
        t \in { <<"{", "a">>, <<"a", "}">>, <<"{", "BS", "a", "}">>, <<"{", "E">>,
                <<>>, <<"SP">> }}

BodyLines == SerializedLines \cup PaddedLines \cup MalformedLines

BodyTails == { <<>>, <<"{", "a", "}">>, <<"{", "a">>, <<"SP">> }

RECURSIVE BodyBytes(_)
BodyBytes(full) ==
    IF full = <<>> THEN <<>>
    ELSE Utf8Encode(Head(full).text) \o <<"NL">> \o BodyBytes(Tail(full))

InitDecoder ==
    /\ MainInit(DefaultArgs, <<1>>, {<<"a">>})
    /\ \E full \in SeqsUpTo(BodyLines, MaxLines), tail \in BodyTails :
          /\ lines = [full |-> full, tail |-> tail]
          /\ wire = BodyBytes(full) \o Utf8Encode(tail)
    /\ buf = <<>>
    /\ emitted = <<>>
    /\ received = <<>>
    /\ dpc = "streaming"

NextDecoder ==
    \/ \E n \in 1..Len(wire) : DecoderChunk(n)
    \/ DecoderEnd
    \/ DecoderIoError

SpecDecoder == InitDecoder /\ [][NextDecoder]_vars

----------------------------------------------------------------------------
(* Properties of the decoder. *)

\* The body is made of newline-terminated lines only.
AllTerminated == lines.tail = <<>>

\* Every line of the body is a serialized record.
AllWellFormed == \A i \in 1..Len(lines.full) : lines.full[i].rec # None

\* No character of the body takes more than one byte.
SingleByteBody == \A i \in 1..Len(lines.full) : "E" \notin Range(lines.full[i].text)

\* The records of the well-formed lines, in the order of the lines.
RECURSIVE WellFormedRecords(_)
WellFormedRecords(full) ==
    IF full = <<>> THEN <<>>
    ELSE Head(full).rec \o WellFormedRecords(Tail(full))

\* C1: for every sequence of serialized records, one per newline-terminated
\* line, and every cut of the bytes into chunks, the decoder emits exactly
\* the original records, in order.
C1_DecoderCompleteness ==
    (dpc = "done" /\ AllTerminated /\ AllWellFormed)
        => emitted = WellFormedRecords(lines.full)

\* C2: under any chunking the decoder emits exactly the well-formed lines'
\* records in arrival order; a malformed line is dropped and ends nothing.
C2_DecoderResilience ==
    (dpc = "done" /\ AllTerminated)
        => emitted = WellFormedRecords(lines.full)

\* What the decoder does guarantee: both hold of bodies whose characters
\* are single bytes, where no chunk boundary can fall inside a character.
DecoderResilienceSingleByte ==
    (dpc = "done" /\ AllTerminated /\ SingleByteBody)
        => emitted = WellFormedRecords(lines.full)

----------------------------------------------------------------------------
(* Properties of one job. *)

Budget == args.max_tokens

\* The contentDelta values of the records a job has consumed, in order.
Contents(d) == [i \in 1..Len(d) |-> d[i].content]

\* consumedTokenCount after the first n records of d.
Consumed(d, n) == StrLen(Concat(SubSeq(Contents(d), 1, n)))

NeverExceeded(d) == \A n \in 1..Len(d) : Consumed(d, n) <= Budget

FiveBs == <<"b", "b", "b", "b", "b">>

\* C3: a job stops at the first record after which the consumed count is
\* strictly greater than the budget, done or not: no record is consumed
\* after it, the text is the concatenation of the deltas up to and
\* including it, and the status is CompletedBudgetExceeded.
C3_BudgetEnforcement ==
    \A k \in DOMAIN jobs :
        LET j == jobs[k]
            d == j.delivered
        IN  /\ \A n \in 1..(Len(d) - 1) : Consumed(d, n) <= Budget
            /\ (d # <<>> /\ Consumed(d, Len(d)) > Budget)
                   => /\ Status(j) = "CompletedBudgetExceeded"
                      /\ j.accumulated_response = Concat(Contents(d))
                      /\ j.token_count = Consumed(d, Len(d))
                      /\ j.stream = "open"
            /\ Status(j) = "CompletedBudgetExceeded"
                   => (d # <<>> /\ Consumed(d, Len(d)) > Budget)

\* Deltas of lengths 5, 5 with budget 8: stopped after the second record.
C3_Witness ==
    \E k \in DOMAIN jobs :
        /\ Budget = 8
        /\ Contents(jobs[k].delivered) = <<FiveBs, FiveBs>>
        /\ ~jobs[k].delivered[1].done
        /\ Status(jobs[k]) = "CompletedBudgetExceeded"
        /\ jobs[k].accumulated_response = FiveBs \o FiveBs

\* C4: a stream that ends after a last record with done = true, the count
\* never above the budget, gives CompletedWithinBudget and the text is the
\* concatenation, in order, of the deltas of all its records.
C4_NormalCompletion ==
    \A k \in DOMAIN jobs :
        LET j == jobs[k]
            d == j.delivered
        IN  (j.stream = "ended" /\ d # <<>> /\ d[Len(d)].done /\ NeverExceeded(d))
                => /\ Status(j) = "CompletedWithinBudget"
                   /\ j.accumulated_response = Concat(Contents(d))

C4_Witness ==
    \E k \in DOMAIN jobs :
        LET d == jobs[k].delivered
        IN  /\ jobs[k].stream = "ended"
            /\ Len(d) = 2 /\ ~d[1].done /\ d[2].done
            /\ d[1].content = <<"a">> /\ d[2].content = <<"E">>
            /\ Status(jobs[k]) = "CompletedWithinBudget"
            /\ jobs[k].accumulated_response = <<"a", "E">>

\* C5: a stream that ends with no done record consumed and the budget never
\* exceeded leaves the job Failed.
C5_TruncationIsFailure ==
    \A k \in DOMAIN jobs :
        LET j == jobs[k]
            d == j.delivered
        IN  (j.stream = "ended" /\ (\A i \in 1..Len(d) : ~d[i].done) /\ NeverExceeded(d))
                => Status(j) = "Failed"

----------------------------------------------------------------------------
(* Properties of the dispatcher. *)

\* C6: a job's transport error leaves its siblings to finish: whenever the
\* process has ended and transport errors are the only failures of any job,
\* every job without one has returned, its output written.
C6_FailureIsolation ==
    (/\ ~ProcessAlive
     /\ \A k \in DOMAIN jobs : jobs[k].state = "panicked" => jobs[k].stream = "error")
        => \A k \in DOMAIN jobs :
               jobs[k].stream \notin {"error", "hung"} => jobs[k].state = "returned"

\* The pool exists once main has passed main.rs 112.
PoolBuilt == mainpc \notin {"start", "pool"}

\* C8: with an empty pool the run ends before any page is rendered, any
\* file written or any job launched.
C8_EmptyPoolFailsFast ==
    (PoolBuilt /\ Len(ollama_list) = 0)
        => (rendered = {} /\ DOMAIN fs = {} /\ DOMAIN jobs = {})

\* C9: every endpoint built from an address token has replicaCount >= 1.
C9_ReplicaCountPositive ==
    mainpc # "start" => \A i \in 1..Len(ollamas) : ollamas[i].count >= 1

----------------------------------------------------------------------------
(* C7: the pool and the assignment. *)

\* The replica counts of the endpoints before endpoint i, added up.
RECURSIVE CountsBefore(_)
CountsBefore(i) == IF i <= 1 THEN 0 ELSE CountsBefore(i - 1) + ollamas[i - 1].count

\* The endpoint whose replicas cover position n of the flattened list.
EndpointAt(n) ==
    CHOOSE i \in 1..Len(ollamas) :
        CountsBefore(i) < n /\ n <= CountsBefore(i) + ollamas[i].count

\* C7: the pool holds each endpoint replicaCount times, its length the sum
\* of the counts, and the job of page p is given pool[(p - 1) mod length].
C7_PositionalRoundRobin ==
    PoolBuilt =>
        /\ Len(ollama_list) = CountsBefore(Len(ollamas) + 1)
        /\ \A n \in 1..Len(ollama_list) : ollama_list[n] = EndpointAt(n)
        /\ \A k \in DOMAIN jobs :
               jobs[k].ollama = EndpointAt(((k[2] - 1) % Len(ollama_list)) + 1)

\* Endpoints [A@2, B@1]: pages 1, 2, 3, 4 (indices 0..3) go to A, A, B, A.
C7_Witness ==
    /\ args.ollama_url = << <<"h", "@", "2">>, <<"g", "@", "1">> >>
    /\ DOMAIN jobs = {<<1, 1>>, <<1, 2>>, <<1, 3>>, <<1, 4>>}
    /\ [p \in 1..4 |-> ollamas[jobs[<<1, p>>].ollama].base_url]
           = << <<"h">>, <<"h">>, <<"g">>, <<"h">> >>

----------------------------------------------------------------------------
(* C10: the page range. *)

\* The range of document d as the claim states it.
RangeStart(d) == IF args.page_start = None THEN 1 ELSE args.page_start[1]

RangeEnd(d) == IF args.page_end = None THEN page_counts[d] ELSE args.page_end[1]

RangeAccepted(d) ==
    1 <= RangeStart(d) /\ RangeStart(d) <= RangeEnd(d) /\ RangeEnd(d) <= page_counts[d]

Launched(d) == {k \in DOMAIN jobs : k[1] = d}

\* C10: pageStart = 0, pageEnd < pageStart and pageEnd > N are each
\* rejected with an error, no page of that document rendered and no job of
\* it launched; a range with 1 <= pageStart <= pageEnd <= N is accepted.
C10_RangeValidation ==
    /\ \A d \in 1..Len(args.files) :
           ~RangeAccepted(d) =>
               /\ Launched(d) = {}
               /\ \A p \in 1..page_counts[d] : <<d, p>> \notin rendered
               /\ doc <= d
               /\ doc = d => mainpc \in {"load", "failed"}
    /\ mainpc = "failed" => ~RangeAccepted(doc)

\* The second file is rejected (its page count is below pageEnd) after the
\* first was accepted and its job run.
C10_Witness ==
    /\ mainpc = "failed"
    /\ doc = 2
    /\ RangeStart(2) >= 1
    /\ RangeEnd(2) > page_counts[2]
    /\ Launched(1) # {}
    /\ Launched(2) = {}

\* ---------------------------------------------------------------------------
\* Joining, progress and clean-up (main.rs 264-282)
\* ---------------------------------------------------------------------------

\* The dispatcher has left the join loop of document d: it is about to report
\* the elapsed time and delete the images, or has moved on to a later file.
DeclaredDone(d) ==
    \/ doc > d
    \/ doc = d /\ mainpc = "join" /\ join_idx > Len(handles)

Terminal(k) == Status(jobs[k]) # "Streaming"

\* C11: the dispatcher declares a document done (reports the elapsed time,
\* starts deleting the images, moves to the next document) only in states
\* where every job launched for that document has reached a terminal status.
C11_JoinBarrier ==
    \A d \in 1..Len(args.files) :
        DeclaredDone(d) => \A k \in Launched(d) : Terminal(k)

\* A document of two pages has left its join loop.
C11_Witness ==
    /\ mainpc = "join"
    /\ join_idx > Len(handles)
    /\ Cardinality(Launched(doc)) = 2

\* The dispatcher is inside the page loop or the join loop of document doc.
InDocument == mainpc \in {"pages", "join", "await"}

TerminalJobs(d) == {k \in Launched(d) : Terminal(k)}

\* C12: the progress indicator is advanced for a job as that job completes:
\* in every reachable state the number of progress increments of the
\* document is at most the number of its jobs that have reached a terminal
\* status, and the indicator never decreases.
C12_ProgressFollowsCompletion ==
    /\ [](InDocument => progress <= Cardinality(TerminalJobs(doc)))
    /\ [][InDocument /\ InDocument' => progress' >= progress]_vars

\* ---------------------------------------------------------------------------
\* Artefact paths (main.rs 187-192, 230-232, 262, 277-281)
\* ---------------------------------------------------------------------------

\* C13: for every input file name and every two distinct pages of one
\* document, the jobs write to distinct output paths, and no job's output
\* path equals the rendered-image path of any page.
C13_OutputPathsNeverCollide ==
    \A k1 \in DOMAIN jobs :
        /\ \A k2 \in Launched(k1[1]) \ {k1} :
               jobs[k1].content_path # jobs[k2].content_path
        /\ \A pg \in rendered :
               jobs[k1].content_path # ImagePath(args.files[pg[1]], pg[2])

RenderedImages(d) == {ImagePath(args.files[d], pg[2]) : pg \in {q \in rendered : q[1] = d}}

\* What is left of document d once the dispatcher has moved past it.
CleanedUp(d) ==
    /\ \A k \in Launched(d) :
           /\ jobs[k].content_path \in DOMAIN fs
           /\ fs[jobs[k].content_path] = jobs[k].accumulated_response
    /\ \A img \in RenderedImages(d) : img \in DOMAIN fs <=> args.keep

\* C14: with the keep flag off, after all jobs of a document have finished
\* the dispatcher deletes exactly the rendered images of its pages and leaves
\* every transcription output in place; with the flag on nothing is deleted.
C14_DiscardRemovesOnlyImages ==
    \A d \in 1..Len(args.files) : doc > d => CleanedUp(d)

\* The same, for the file names that contain ".pdf".
DiscardRemovesOnlyImagesOfPdfNames ==
    \A d \in 1..Len(args.files) :
        (doc > d /\ \E i \in 1..Len(args.files[d]) : args.files[d][i] = DotPdf)
            => CleanedUp(d)

PdfNameCleaned ==
    /\ doc = 2
    /\ ~args.keep
    /\ Cardinality(Launched(1)) = 2
    /\ \A k \in Launched(1) : jobs[k].accumulated_response # <<>>

\* ---------------------------------------------------------------------------
\* The end of a job (main.rs 235-263)
\* ---------------------------------------------------------------------------

Persisted(k) ==
    /\ jobs[k].content_path \in DOMAIN fs
    /\ fs[jobs[k].content_path] = jobs[k].accumulated_response

\* C15: every job whose record stream ends without a transport error, or
\* stops on the budget, including a stream that yields no record at all,
\* has persisted exactly its accumulated text as its output artefact when it
\* terminates.
C15_OutputWrittenOnNormalExit ==
    \A k \in DOMAIN jobs :
        (jobs[k].stream = "ended" \/ jobs[k].exit = "budget") =>
            /\ jobs[k].state = "returned"
            /\ Persisted(k)

\* The same, for the streams that yield one record or more.
OutputWrittenAfterFirstRecord ==
    \A k \in DOMAIN jobs :
        (jobs[k].delivered # <<>> /\ (jobs[k].stream = "ended" \/ jobs[k].exit = "budget")) =>
            /\ jobs[k].state = "returned"
            /\ Persisted(k)

\* ---------------------------------------------------------------------------
\* Hanging backends (main.rs 234-272)
\* ---------------------------------------------------------------------------

Hung(k) == k \in DOMAIN jobs /\ jobs[k].stream = "hung"

\* The stream of job k has ended or passed the budget, and the job has
\* reached a terminal status with its output persisted.
Settled(k) == k \in DOMAIN jobs /\ Terminal(k) /\ Persisted(k)

\* The backend of job k failed or hangs itself.
NoNormalExit(k) == k \in DOMAIN jobs /\ jobs[k].stream \in {"error", "hung"}

\* C16: if the backend of one job never ends its stream and never exceeds
\* the budget, that job stays non-terminal forever, while, under fair
\* scheduling, every sibling job whose own stream ends or exceeds its budget
\* still reaches a terminal status and persists its output.
C16_HangingJobDoesNotAffectSiblings ==
    \A h \in JobKeys :
        /\ [](Hung(h) => [](Hung(h) /\ ~Terminal(h)))
        /\ \A k \in JobKeys \ {h} :
               (Hung(h) /\ k \in DOMAIN jobs /\ k[1] = h[1])
                   ~> (Settled(k) \/ NoNormalExit(k))

\* The same, short of the panics of the siblings themselves.
SomeJobPanicked == \E j \in DOMAIN jobs : jobs[j].state = "panicked"

HangingJobAloneDoesNotAffectSiblings ==
    \A h \in JobKeys :
        /\ [](Hung(h) => [](Hung(h) /\ ~Terminal(h)))
        /\ \A k \in JobKeys \ {h} :
               (Hung(h) /\ k \in DOMAIN jobs /\ k[1] = h[1])
                   ~> (Settled(k) \/ NoNormalExit(k) \/ SomeJobPanicked)

HungWithSettledSibling ==
    /\ Hung(<<1, 1>>)
    /\ Settled(<<1, 2>>)
    /\ mainpc = "await"

\* ---------------------------------------------------------------------------
\* One job per page (main.rs 141-158, 234-273)
\* ---------------------------------------------------------------------------

RangePages(d) == {<<d, p>> : p \in RangeStart(d)..RangeEnd(d)}

RangeSize(d) == RangeEnd(d) - RangeStart(d) + 1

\* C17: for a validated range the dispatcher launches exactly one job for
\* each page of [pageStart, pageEnd] and none outside it, so the number of
\* launched jobs, of joined handles and of progress increments at the end of
\* the document all equal pageEnd - pageStart + 1.
C17_OneJobPerPage ==
    /\ \A d \in 1..Len(args.files) :
           /\ Launched(d) \subseteq RangePages(d)
           /\ DeclaredDone(d) => Launched(d) = RangePages(d)
    /\ Cardinality(Range(handles)) = Len(handles)
    /\ (mainpc = "join" /\ join_idx > Len(handles)) =>
           /\ Range(handles) = Launched(doc)
           /\ Len(handles) = RangeSize(doc)
           /\ join_idx - 1 = RangeSize(doc)
           /\ progress = RangeSize(doc)

\* The end of a two-page document of which only page 2 was asked for.
C17_Witness ==
    /\ mainpc = "join"
    /\ join_idx > Len(handles)
    /\ page_counts[doc] = 2
    /\ RangeStart(doc) = 2
    /\ Launched(doc) = {<<doc, 2>>}
    /\ progress = 1

\* ---------------------------------------------------------------------------
\* The decoder's buffer (ollama.rs 220-263)
\* ---------------------------------------------------------------------------

NlPositions(t) == {i \in 1..Len(t) : t[i] = "NL"}

Max(S) == CHOOSE x \in S : \A y \in S : y <= x

Min(S) == CHOOSE x \in S : \A y \in S : x <= y

\* The text after the last newline of t, all of t when it has none.
AfterLastNl(t) ==
    IF NlPositions(t) = {} THEN t ELSE SubSeq(t, Max(NlPositions(t)) + 1, Len(t))

\* The newline-terminated lines of t, in order, without their newline.
RECURSIVE TerminatedLines(_)
TerminatedLines(t) ==
    IF NlPositions(t) = {} THEN <<>>
    ELSE LET nl == Min(NlPositions(t))
         IN  <<SubSeq(t, 1, nl - 1)>> \o TerminatedLines(SubSeq(t, nl + 1, Len(t)))

\* What the terminated lines of t parse to.
LineRecords(t) ==
    LET ls == TerminatedLines(t)
    IN  Concat([i \in 1..Len(ls) |-> ParseLine(Trim(ls[i]))])

FinalRecords(b) ==
    IF Trim(b) = <<>> THEN <<>>
    ELSE IF FromJson(Trim(b)) = None THEN <<>>
    ELSE <<FromJson(Trim(b))[1]>>

\* C19: when the chunk stream ends, a remaining buffer that is not empty
\* after trimming is parsed once: on success its record is emitted as the
\* last item, on failure nothing is emitted and the stream still ends without
\* an error; an empty or whitespace-only buffer emits nothing.
C19_EndOfStreamFlush ==
    dpc = "done" => emitted = LineRecords(received) \o FinalRecords(buf)

\* The body ended with an unterminated record after a terminated one; both
\* were emitted, the unterminated one last.
C19_Witness ==
    /\ dpc = "done"
    /\ buf = <<"{", "a", "}">>
    /\ Len(emitted) = 2
    /\ emitted[2] = [content |-> <<"a">>, done |-> FALSE]
    /\ LineRecords(received) = <<emitted[1]>>

\* ---------------------------------------------------------------------------
\* The budget comparison at its edges (main.rs 247-252, args.rs 60-61)
\* ---------------------------------------------------------------------------

StoppedOnBudget(j) == j.state = "returned" /\ j.exit = "budget"

\* C20: with a budget of 0 a job stops right after the first record whose
\* contentDelta is not empty; a record with an empty contentDelta never
\* triggers the stop; and a record that brings the consumed count to exactly
\* the budget does not stop the job.
C20_StrictComparisonAtZero ==
    \A k \in DOMAIN jobs :
        LET j == jobs[k]
            d == j.delivered
        IN  /\ Budget = 0 =>
                   /\ \A i \in 1..(Len(d) - 1) : d[i].content = <<>>
                   /\ (d # <<>> /\ d[Len(d)].content # <<>>) => StoppedOnBudget(j)
            /\ StoppedOnBudget(j) => (d # <<>> /\ d[Len(d)].content # <<>>)
            /\ (d # <<>> /\ Consumed(d, Len(d)) = Budget) => ~StoppedOnBudget(j)

\* Budget 0: an empty delta was consumed without a stop, the delta "a" after
\* it stopped the job.
C20_Witness ==
    \E k \in DOMAIN jobs :
        /\ Budget = 0
        /\ Contents(jobs[k].delivered) = << <<>>, <<"a">> >>
        /\ StoppedOnBudget(jobs[k])
        /\ jobs[k].accumulated_response = <<"a">>

\* Budget 2: the two-byte delta brought the count to the budget exactly and
\* the job went on to a further record.
CountEqualToBudgetContinues ==
    \E k \in DOMAIN jobs :
        /\ Budget = 2
        /\ Len(jobs[k].delivered) = 2
        /\ jobs[k].delivered[1].content = <<"E">>

\* ---------------------------------------------------------------------------
\* After the end of a job (main.rs 234-263)
\* ---------------------------------------------------------------------------

\* C21: once a job has reached a terminal status (CompletedWithinBudget,
\* CompletedBudgetExceeded or Failed), its status, accumulatedText and
\* consumedTokenCount never change again and it consumes no further record
\* of its stream.
C21_TerminalStatusAbsorbing ==
    [][\A k \in DOMAIN jobs :
           Terminal(k) =>
               /\ k \in DOMAIN jobs'
               /\ Status(jobs'[k]) = Status(jobs[k])
               /\ jobs'[k].accumulated_response = jobs[k].accumulated_response
               /\ jobs'[k].token_count = jobs[k].token_count
               /\ jobs'[k].delivered = jobs[k].delivered]_vars

\* The dispatcher has moved past the document after one of its jobs
\* stopped on the budget and the sibling completed within it.
C21_Witness ==
    /\ doc = 2
    /\ {<<1, 1>>, <<1, 2>>} \subseteq DOMAIN jobs
    /\ Status(jobs[<<1, 1>>]) = "CompletedBudgetExceeded"
    /\ Status(jobs[<<1, 2>>]) = "CompletedWithinBudget"

\* ---------------------------------------------------------------------------
\* What a job's step leaves alone (main.rs 225-263, ollama.rs 189-267)
\* ---------------------------------------------------------------------------

\* The step changes job k: its decoder took a chunk, or the task consumed a
\* record, stopped on the budget, wrote its output or ended.
StepOfJob(k) == jobs'[k] # jobs[k]

\* C22: every step of a job (consuming a record, stopping on the budget,
\* writing its output) leaves unchanged the accumulatedText, the
\* consumedTokenCount and the decoder buffer of every other job, and leaves
\* the endpoint pool and its endpoints unchanged, under every interleaving.
C22_JobLocalState ==
    [][\A k \in DOMAIN jobs :
           StepOfJob(k) =>
               /\ \A o \in DOMAIN jobs \ {k} :
                      /\ jobs'[o].accumulated_response = jobs[o].accumulated_response
                      /\ jobs'[o].token_count = jobs[o].token_count
                      /\ jobs'[o].buf = jobs[o].buf
               /\ ollama_list' = ollama_list
               /\ ollamas' = ollamas]_vars

\* Two jobs on the same endpoint, interleaved: each has consumed a record,
\* the decoder of the first holds the start of a line, that of the second
\* holds nothing.
C22_Witness ==
    /\ {<<1, 1>>, <<1, 2>>} \subseteq DOMAIN jobs
    /\ jobs[<<1, 1>>].ollama = jobs[<<1, 2>>].ollama
    /\ jobs[<<1, 1>>].buf = <<"{", "a">>
    /\ jobs[<<1, 2>>].buf = <<>>
    /\ jobs[<<1, 1>>].delivered # <<>>
    /\ jobs[<<1, 2>>].delivered # <<>>
    /\ jobs[<<1, 1>>].state = "running"
    /\ jobs[<<1, 2>>].state = "running"

\* The record step of a job is the decoder's step on the completing chunk:
\* the decoder yields that record and nothing else, and keeps nothing.
RecordStepIsDecoderStep ==
    \A k \in DOMAIN jobs : \A r \in Records :
        IsPrefix(jobs[k].buf, ToJson(r)) =>
            ProcessChunk(jobs[k].buf, CompletingChunk(jobs[k].buf, r))
                = [buf |-> <<>>, out |-> <<r>>]

====
